---- MODULE Spec2Model ----
(***************************************************************************)
(* Model of the libdns provider for Domainnameshop (provider.go,           *)
(* client.go, models.go).                                                  *)
(*                                                                         *)
(* Go strings are sequences of one-character strings, so that the suffix   *)
(* and digit operations of the code are computed, not assumed.  A          *)
(* time.Duration is a number of ticks, Second ticks to the second.         *)
(***************************************************************************)
EXTENDS Integers, Sequences, FiniteSets, TLC

\* ------------------------------------------------------------------ bounds

\* Public operations per behaviour.
MaxOps == 3
\* Provider-assigned identifiers are 1..MaxID.
MaxID == 2
\* An injected transport failure hits the request with this ordinal or lower.
MaxFail == 2
\* Length of the names and zones the name normalisation is applied to.
MaxLen == 4

\* The value of an expression under a name, as an assignment x := e gives it
\* to the statements that follow.
Bind(v, K(_)) == K(v)

\* ----------------------------------------------------------------- strings

Digits == <<"0", "1", "2", "3", "4", "5", "6", "7", "8", "9">>

\* strings.HasSuffix
HasSuffix(s, suffix) ==
    /\ Len(suffix) <= Len(s)
    /\ SubSeq(s, Len(s) - Len(suffix) + 1, Len(s)) = suffix

\* strings.TrimSuffix
TrimSuffix(s, suffix) ==
    IF HasSuffix(s, suffix) THEN SubSeq(s, 1, Len(s) - Len(suffix)) ELSE s

removeFQDNTrailingDot(fqdn) == TrimSuffix(fqdn, <<".">>)

\* strings.TrimPrefix
TrimPrefix(s, prefix) ==
    IF Len(prefix) <= Len(s) /\ SubSeq(s, 1, Len(prefix)) = prefix
    THEN SubSeq(s, Len(prefix) + 1, Len(s))
    ELSE s

\* strings.SplitN(s, ".", 2): the string itself when it holds no dot, else
\* what stands before the first dot and everything that stands after it.
SplitN2(s) ==
    Bind({i \in 1..Len(s) : s[i] = "."}, LAMBDA dots :
    IF dots = {} THEN <<s>>
    ELSE Bind(CHOOSE i \in dots : \A j \in dots : i <= j, LAMBDA i :
         <<SubSeq(s, 1, i - 1), SubSeq(s, i + 1, Len(s))>>))

normalizeRecordName(recordName, zone) ==
    LET n1 == removeFQDNTrailingDot(recordName)
        n2 == TrimSuffix(n1, removeFQDNTrailingDot(zone))
        n3 == IF n2 = <<>> THEN <<"@">> ELSE n2
    IN removeFQDNTrailingDot(n3)

\* strconv.Itoa of a non-negative int
RECURSIVE Itoa(_)
Itoa(n) ==
    IF n < 10 THEN <<Digits[n + 1]>> ELSE Itoa(n \div 10) \o <<Digits[(n % 10) + 1]>>

DigitValue(ch) == CHOOSE d \in 0..9 : Digits[d + 1] = ch

IsDigit(ch) == \E d \in 0..9 : Digits[d + 1] = ch

RECURSIVE DecimalValue(_)
DecimalValue(s) ==
    IF s = <<>> THEN 0
    ELSE 10 * DecimalValue(SubSeq(s, 1, Len(s) - 1)) + DigitValue(s[Len(s)])

\* strconv.ParseUint(s, 10, 16): an error for the empty string, for any
\* character that is no digit and for a value that does not fit 16 bits.
ParseUint(s) ==
    IF s = <<>> \/ (\E i \in 1..Len(s) : ~IsDigit(s[i])) \/ Len(s) > 5
    THEN [err |-> TRUE, val |-> 0]
    ELSE IF DecimalValue(s) >= 65536 THEN [err |-> TRUE, val |-> 0]
    ELSE [err |-> FALSE, val |-> DecimalValue(s)]

\* ------------------------------------------------------------------- codec

\* time.Second, in ticks
Second == 2

defaultTtl == 120 * Second

\* dsDNSRecord{}
EmptyRecord ==
    [ID |-> 0, Host |-> <<>>, Data |-> <<>>, Type |-> "", TTL |-> 0,
     Priority |-> <<>>, Weight |-> <<>>, Port |-> <<>>]

\* libdns.RR{Name, TTL, Type, Data}
MkRR(name, ttl, type, data) ==
    [kind |-> "RR", Name |-> name, TTL |-> ttl, Type |-> type, Data |-> data]

\* libdns.TXT{Name, TTL, Text, ProviderData}
MkTXT(name, ttl, text, pd) ==
    [kind |-> "TXT", Name |-> name, TTL |-> ttl, Text |-> text, ProviderData |-> pd]

\* libdns.MX{Name, TTL, Preference, Target, ProviderData}
MkMX(name, ttl, pref, target, pd) ==
    [kind |-> "MX", Name |-> name, TTL |-> ttl, Preference |-> pref,
     Target |-> target, ProviderData |-> pd]

\* libdns.SRV{Service, Transport, Name, TTL, Priority, Weight, Port, Target,
\* ProviderData}
MkSRV(service, transport, name, ttl, priority, weight, port, target, pd) ==
    [kind |-> "SRV", Service |-> service, Transport |-> transport, Name |-> name,
     TTL |-> ttl, Priority |-> priority, Weight |-> weight, Port |-> port,
     Target |-> target, ProviderData |-> pd]

\* libdns.Record.RR(): the flattened view of a generic record.  An MX record
\* flattens its data to "<preference> <target>", an SRV record its name to
\* "_<service>._<transport>.<name>" and its data to
\* "<priority> <weight> <port> <target>".
RR(r) ==
    CASE r.kind = "RR" -> r
      [] r.kind = "TXT" -> MkRR(r.Name, r.TTL, "TXT", r.Text)
      [] r.kind = "MX" ->
            MkRR(r.Name, r.TTL, "MX", Itoa(r.Preference) \o <<" ">> \o r.Target)
      [] r.kind = "SRV" ->
            MkRR(<<"_">> \o r.Service \o <<".", "_">> \o r.Transport \o <<".">>
                    \o r.Name,
                 r.TTL, "SRV",
                 Itoa(r.Priority) \o <<" ">> \o Itoa(r.Weight) \o <<" ">>
                    \o Itoa(r.Port) \o <<" ">> \o r.Target)

\* libdns.RR.Parse() for the types that reach it here (a TXT record).
Parse(rr) ==
    IF rr.Type = "TXT"
    THEN [err |-> FALSE, rec |-> MkTXT(rr.Name, rr.TTL, rr.Data, 0)]
    ELSE [err |-> FALSE, rec |-> rr]

\* The SRV case of dsDNSRecord.libdnsRecord: the three numbers are parsed in
\* the order priority, weight, port, then the host is split.
libdnsRecordSRV(r) ==
    Bind(MkSRV(<<>>, <<>>, <<>>, 0, 0, 0, 0, <<>>, 0), LAMBDA none :
    Bind(ParseUint(r.Priority), LAMBDA priority :
    Bind(ParseUint(r.Weight), LAMBDA weight :
    Bind(ParseUint(r.Port), LAMBDA port :
    Bind(SplitN2(r.Host), LAMBDA parts :
    IF priority.err \/ weight.err \/ port.err \/ Len(parts) < 2
    THEN [err |-> TRUE, rec |-> none]
    ELSE [err |-> FALSE,
          rec |-> MkSRV(TrimPrefix(parts[1], <<"_">>), TrimPrefix(parts[2], <<"_">>),
                        r.Host, r.TTL * Second, priority.val, weight.val,
                        port.val, r.Data, 0)])))))

\* dsDNSRecord.libdnsRecord
libdnsRecord(r) ==
    IF r.Type = "SRV" THEN libdnsRecordSRV(r)
    ELSE IF r.Type = "MX"
    THEN Bind(ParseUint(r.Priority), LAMBDA priority :
         IF priority.err
         THEN [err |-> TRUE, rec |-> MkMX(<<>>, 0, 0, <<>>, 0)]
         ELSE [err |-> FALSE,
               rec |-> MkMX(r.Host, r.TTL * Second, priority.val, r.Data, 0)])
    ELSE Parse(MkRR(r.Host, r.TTL * Second, r.Type, r.Data))

\* libdnsRecordTodsDNSRecord: the identifier of the result is always 0; an MX
\* record sets the priority besides, an SRV record priority, port and weight,
\* and its target becomes the data.
libdnsRecordTodsDNSRecord(r) ==
    LET rr == RR(r)
        dsRecord == [EmptyRecord EXCEPT !.Host = rr.Name,
                                        !.TTL = rr.TTL \div Second,
                                        !.Type = rr.Type,
                                        !.Data = rr.Data]
    IN IF r.kind = "MX"
       THEN [dsRecord EXCEPT !.Priority = Itoa(r.Preference)]
       ELSE IF r.kind = "SRV"
       THEN [dsRecord EXCEPT !.Priority = Itoa(r.Priority),
                             !.Port = Itoa(r.Port),
                             !.Weight = Itoa(r.Weight),
                             !.Data = r.Target]
       ELSE dsRecord

\* --------------------------------------------------------------- transport

\* The one zone the remote account holds, under the name "z".
ZoneName == <<"z">>

RemoteZone == [Name |-> ZoneName, ID |-> 1]

NoZone == [Name |-> <<>>, ID |-> 0]

\* A domain name the remote account holds twice.
ZoneTwice == <<"w">>

\* A domain name the remote account does not hold.
ZoneAbsent == <<"n">>

\* The zones of the remote account.
RemoteZones ==
    <<RemoteZone, [Name |-> ZoneTwice, ID |-> 2], [Name |-> ZoneTwice, ID |-> 3]>>

\* The requests the client builds: method, endpoint, the record identifier in
\* the URL, the domain queried, the JSON body.
ZonesRequest(domain) ==
    [method |-> "GET", endpoint |-> "domains", id |-> 0, domain |-> domain,
     body |-> EmptyRecord]

RecordsRequest ==
    [method |-> "GET", endpoint |-> "dns", id |-> 0, domain |-> <<>>,
     body |-> EmptyRecord]

CreateRequest(reqData) ==
    [method |-> "POST", endpoint |-> "dns", id |-> 0, domain |-> <<>>,
     body |-> reqData]

UpdateRequest(id, reqData) ==
    [method |-> "POST", endpoint |-> "dns/id", id |-> id, domain |-> <<>>,
     body |-> reqData]

DeleteRequest(id) ==
    [method |-> "DELETE", endpoint |-> "dns/id", id |-> id, domain |-> <<>>,
     body |-> EmptyRecord]

HasID(records, id) == \E i \in 1..Len(records) : records[i].ID = id

\* The records without the one that has this identifier, in order.
RECURSIVE WithoutID(_, _)
WithoutID(records, id) ==
    IF records = <<>> THEN <<>>
    ELSE IF Head(records).ID = id THEN WithoutID(Tail(records), id)
    ELSE <<Head(records)>> \o WithoutID(Tail(records), id)

\* The remote API (spec section 6): its answer to a request that reaches it.
\* A record that does not exist answers an update or a delete with 404.
RemoteAnswer(c, req) ==
    LET same == [status |-> 200, remote |-> c.remote, nextID |-> c.nextID,
                 zones |-> <<>>, records |-> <<>>, record |-> EmptyRecord]
    IN CASE req.method = "GET" /\ req.endpoint = "domains" ->
              [same EXCEPT !.zones =
                  SelectSeq(RemoteZones, LAMBDA z : z.Name = req.domain)]
         [] req.method = "GET" /\ req.endpoint = "dns" ->
              [same EXCEPT !.records = c.remote]
         [] req.method = "POST" /\ req.endpoint = "dns" ->
              LET new == [req.body EXCEPT !.ID = c.nextID]
              IN [same EXCEPT !.remote = Append(c.remote, new),
                              !.nextID = c.nextID + 1,
                              !.record = new]
         [] req.method = "POST" /\ req.endpoint = "dns/id" ->
              IF HasID(c.remote, req.id)
              THEN [same EXCEPT !.remote =
                       [i \in 1..Len(c.remote) |->
                           IF c.remote[i].ID = req.id
                           THEN [req.body EXCEPT !.ID = req.id]
                           ELSE c.remote[i]]]
              ELSE [same EXCEPT !.status = 404]
         [] req.method = "DELETE" ->
              IF HasID(c.remote, req.id)
              THEN [same EXCEPT !.remote = WithoutID(c.remote, req.id)]
              ELSE [same EXCEPT !.status = 404]

\* doRequest.  The execution context c carries the instance's two caches, the
\* remote zone, the log of the requests of the running operation, the ordinal
\* of the request the transport fails (0: none) and the index k of the input
\* record being processed.  A request the transport fails does not reach the
\* remote; a status of 400 or more is an error.  A log entry keeps the
\* request, the record it was issued for, its outcome and the identifier the
\* remote assigned (rid).
doRequest(c, req) ==
    Bind(Len(c.reqs) + 1 = c.failAt, LAMBDA lost :
    Bind(IF lost
         THEN [status |-> 0, remote |-> c.remote, nextID |-> c.nextID,
               zones |-> <<>>, records |-> <<>>, record |-> EmptyRecord]
         ELSE RemoteAnswer(c, req), LAMBDA ans :
    Bind(lost \/ ans.status >= 400, LAMBDA err :
        [c |-> [c EXCEPT !.reqs = Append(@,
                    [method |-> req.method, endpoint |-> req.endpoint,
                     id |-> req.id, body |-> req.body, k |-> c.k, err |-> err,
                     rid |-> IF err THEN 0 ELSE ans.record.ID]),
                         !.remote = ans.remote,
                         !.nextID = ans.nextID],
         err |-> err,
         zones |-> ans.zones, records |-> ans.records, record |-> ans.record])))

\* ------------------------------------------------------------------ client

getDomainInfo(c, zone) ==
    IF zone \in DOMAIN c.zones
    THEN [c |-> c, err |-> FALSE, domain |-> c.zones[zone]]
    ELSE Bind(doRequest(c, ZonesRequest(removeFQDNTrailingDot(zone))), LAMBDA r :
         IF r.err
         THEN [c |-> r.c, err |-> TRUE, domain |-> NoZone]
         ELSE IF Len(r.zones) # 1
         THEN [c |-> r.c, err |-> TRUE, domain |-> NoZone]
         ELSE [c |-> [r.c EXCEPT !.zones = (zone :> r.zones[1]) @@ @],
               err |-> FALSE, domain |-> r.zones[1]])

\* getAllDomainRecords as it would be if it answered from the snapshot it has.
getAllDomainRecordsFromCache(c, zone) ==
    Bind(getDomainInfo(c, zone), LAMBDA d :
    IF d.err
    THEN [c |-> d.c, err |-> TRUE, records |-> <<>>]
    ELSE IF zone \in DOMAIN d.c.knownRecords
    THEN [c |-> d.c, err |-> FALSE, records |-> d.c.knownRecords[zone]]
    ELSE Bind(doRequest(d.c, RecordsRequest), LAMBDA r :
         IF r.err
         THEN [c |-> r.c, err |-> TRUE, records |-> <<>>]
         ELSE [c |-> [r.c EXCEPT !.knownRecords = (zone :> r.records) @@ @],
               err |-> FALSE, records |-> r.records]))

getAllDomainRecords(c, zone) ==
    Bind(getDomainInfo(c, zone), LAMBDA d :
    IF d.err
    THEN [c |-> d.c, err |-> TRUE, records |-> <<>>]
    ELSE Bind(doRequest(d.c, RecordsRequest), LAMBDA r :
         IF r.err
         THEN [c |-> r.c, err |-> TRUE, records |-> <<>>]
         ELSE [c |-> [r.c EXCEPT !.knownRecords = (zone :> r.records) @@ @],
               err |-> FALSE, records |-> r.records]))

\* The test as it would be if it took a tombstoned entry by host and data.
KnownMatchTombstoned(record, rec) ==
    \/ record.ID = rec.ID /\ record.ID # 0 /\ rec.ID # 0
    \/ record.Host = rec.Host /\ record.Data = rec.Data

\* The test of the loop of getRecordFromKnownRecords on one cached entry.
KnownMatch(record, rec) ==
    \/ record.ID = rec.ID /\ record.ID # 0 /\ rec.ID # 0
    \/ record.Host = rec.Host /\ record.Data = rec.Data /\ rec.ID # 0

\* The first index of a non-empty set of indices.
First(hits) == CHOOSE i \in hits : \A j \in hits : i <= j

getRecordFromKnownRecords(c, record, zone) ==
    IF zone \notin DOMAIN c.knownRecords THEN EmptyRecord
    ELSE Bind({i \in 1..Len(c.knownRecords[zone]) :
                  KnownMatch(record, c.knownRecords[zone][i])}, LAMBDA hits :
         IF hits = {} THEN EmptyRecord ELSE c.knownRecords[zone][First(hits)])

\* removeRecordFromKnownRecords as it would be if it took the entry out of
\* the slice.
removeRecordFromKnownRecordsCompact(c, record, zone) ==
    IF zone \notin DOMAIN c.knownRecords THEN c
    ELSE Bind({i \in 1..Len(c.knownRecords[zone]) :
                  record.ID = c.knownRecords[zone][i].ID /\ record.ID # 0},
              LAMBDA hits :
         IF hits = {} THEN c
         ELSE [c EXCEPT !.knownRecords[zone] =
                  SubSeq(@, 1, First(hits) - 1) \o SubSeq(@, First(hits) + 1, Len(@))])

\* The cache after removeRecordFromKnownRecords: the first entry with the
\* record's non-zero identifier has its identifier set to 0.
removeRecordFromKnownRecords(c, record, zone) ==
    IF zone \notin DOMAIN c.knownRecords THEN c
    ELSE Bind({i \in 1..Len(c.knownRecords[zone]) :
                  record.ID = c.knownRecords[zone][i].ID /\ record.ID # 0},
              LAMBDA hits :
         IF hits = {} THEN c
         ELSE [c EXCEPT !.knownRecords[zone][First(hits)].ID = 0])

\* What removeRecordFromKnownRecords returns: whether it found an entry.
removeRecordFromKnownRecordsFound(c, record, zone) ==
    /\ zone \in DOMAIN c.knownRecords
    /\ \E i \in 1..Len(c.knownRecords[zone]) :
          record.ID = c.knownRecords[zone][i].ID /\ record.ID # 0

getDNSRecord(c, zone, record) ==
    Bind(getRecordFromKnownRecords(c, record, zone), LAMBDA dsrecord :
    IF dsrecord # EmptyRecord
    THEN [c |-> c, err |-> FALSE, rec |-> dsrecord]
    ELSE Bind(getAllDomainRecords(c, zone), LAMBDA all :
         IF all.err
         THEN [c |-> all.c, err |-> TRUE, rec |-> EmptyRecord]
         ELSE [c |-> all.c, err |-> FALSE,
               rec |-> getRecordFromKnownRecords(all.c, record, zone)]))

\* deleteDNSRecord as it would be if a record that is not found were an error.
deleteDNSRecordStrict(c, zone, record) ==
    Bind(getDomainInfo(c, zone), LAMBDA d :
    IF d.err THEN [c |-> d.c, err |-> TRUE]
    ELSE Bind(getDNSRecord(d.c, zone, record), LAMBDA g :
         IF g.err \/ g.rec = EmptyRecord THEN [c |-> g.c, err |-> TRUE]
         ELSE Bind(doRequest(g.c, DeleteRequest(g.rec.ID)), LAMBDA r :
              IF r.err THEN [c |-> r.c, err |-> TRUE]
              ELSE [c |-> removeRecordFromKnownRecords(r.c, g.rec, zone),
                    err |-> FALSE])))

deleteDNSRecord(c, zone, record) ==
    Bind(getDomainInfo(c, zone), LAMBDA d :
    IF d.err THEN [c |-> d.c, err |-> TRUE]
    ELSE Bind(getDNSRecord(d.c, zone, record), LAMBDA g :
         IF g.err THEN [c |-> g.c, err |-> TRUE]
         ELSE IF g.rec = EmptyRecord THEN [c |-> g.c, err |-> FALSE]
         ELSE Bind(doRequest(g.c, DeleteRequest(g.rec.ID)), LAMBDA r :
              IF r.err THEN [c |-> r.c, err |-> TRUE]
              ELSE [c |-> removeRecordFromKnownRecords(r.c, g.rec, zone),
                    err |-> FALSE])))

\* The body of a request as it would be with the record's TTL as it is.
RequestDataAsIs(record) == record

\* The body of a create or update request: the TTL defaults to defaultTtl.
RequestData(record) ==
    IF record.TTL = 0
    THEN [record EXCEPT !.TTL = defaultTtl \div Second]
    ELSE record

createDNSRecord(c, zone, record) ==
    Bind(getDomainInfo(c, zone), LAMBDA d :
    IF d.err THEN [c |-> d.c, err |-> TRUE, rec |-> EmptyRecord]
    ELSE Bind([record EXCEPT !.Host = normalizeRecordName(@, zone)], LAMBDA named :
         Bind(doRequest(d.c, CreateRequest(RequestData(named))), LAMBDA r :
              IF r.err THEN [c |-> r.c, err |-> TRUE, rec |-> EmptyRecord]
              ELSE [c |-> r.c, err |-> FALSE,
                    rec |-> [named EXCEPT !.ID = r.record.ID]])))

updateDNSRecord(c, zone, record) ==
    Bind(getDomainInfo(c, zone), LAMBDA d :
    IF d.err THEN [c |-> d.c, err |-> TRUE, rec |-> EmptyRecord]
    ELSE Bind(doRequest(d.c, UpdateRequest(record.ID, RequestData(record))),
              LAMBDA r :
         IF r.err THEN [c |-> r.c, err |-> TRUE, rec |-> EmptyRecord]
         ELSE getDNSRecord(r.c, zone, record)))

createOrUpdateDNSRecord(c, zone, r) ==
    IF r.ID = 0 THEN createDNSRecord(c, zone, r) ELSE updateDNSRecord(c, zone, r)

\* ---------------------------------------------------------------- provider

\* The loop of GetRecords, from fetched entry k on.
RECURSIVE GetRecordsLoop(_, _, _)
\* The loop as it would be if it left out an entry that does not map and
\* went on.
GetRecordsLoopPartial(zoneinfo, k, recs) ==
    IF k > Len(zoneinfo) THEN [err |-> FALSE, result |-> recs]
    ELSE Bind(libdnsRecord(zoneinfo[k]), LAMBDA libdnsRec :
         IF libdnsRec.err THEN GetRecordsLoop(zoneinfo, k + 1, recs)
         ELSE GetRecordsLoop(zoneinfo, k + 1, Append(recs, libdnsRec.rec)))

GetRecordsLoop(zoneinfo, k, recs) ==
    IF k > Len(zoneinfo) THEN [err |-> FALSE, result |-> recs]
    ELSE Bind(libdnsRecord(zoneinfo[k]), LAMBDA libdnsRec :
         IF libdnsRec.err THEN [err |-> TRUE, result |-> <<>>]
         ELSE GetRecordsLoop(zoneinfo, k + 1, Append(recs, libdnsRec.rec)))

\* Every operation yields the context it leaves, its error, its result (<<>>
\* for nil), the index failK of the input record whose processing failed
\* (0: none) and the provider records it obtained.
GetRecords(c, zone) ==
    Bind(getAllDomainRecords(c, zone), LAMBDA all :
    IF all.err
    THEN [c |-> all.c, err |-> TRUE, result |-> <<>>, failK |-> 0, ds |-> <<>>]
    ELSE Bind(GetRecordsLoop(all.records, 1, <<>>), LAMBDA recs :
         [c |-> all.c, err |-> recs.err, result |-> recs.result,
          failK |-> 0, ds |-> all.records]))

RECURSIVE AppendRecordsLoop(_, _, _, _, _, _)
\* AppendRecords as it would be if it went on with the records after one
\* whose create request failed, and reported the failure at the end.
AppendRecordsLoopOn(c, zone, records, k, created, ds) ==
    IF k > Len(records)
    THEN [c |-> c, err |-> FALSE, result |-> created, failK |-> 0, ds |-> ds]
    ELSE Bind(createDNSRecord([c EXCEPT !.k = k], zone,
                              libdnsRecordTodsDNSRecord(records[k])),
              LAMBDA result :
         IF result.err
         THEN Bind(AppendRecordsLoop(result.c, zone, records, k + 1, created, ds),
                   LAMBDA rest :
              [c |-> rest.c, err |-> TRUE, result |-> <<>>, failK |-> k,
               ds |-> rest.ds])
         ELSE Bind(libdnsRecord(result.rec), LAMBDA libdnsRec :
              IF libdnsRec.err
              THEN [c |-> result.c, err |-> TRUE, result |-> <<>>,
                    failK |-> k, ds |-> Append(ds, result.rec)]
              ELSE AppendRecordsLoop(result.c, zone, records, k + 1,
                                     Append(created, libdnsRec.rec),
                                     Append(ds, result.rec))))

AppendRecordsLoop(c, zone, records, k, created, ds) ==
    IF k > Len(records)
    THEN [c |-> c, err |-> FALSE, result |-> created, failK |-> 0, ds |-> ds]
    ELSE Bind(createDNSRecord([c EXCEPT !.k = k], zone,
                              libdnsRecordTodsDNSRecord(records[k])),
              LAMBDA result :
         IF result.err
         THEN [c |-> result.c, err |-> TRUE, result |-> <<>>, failK |-> k,
               ds |-> ds]
         ELSE Bind(libdnsRecord(result.rec), LAMBDA libdnsRec :
              IF libdnsRec.err
              THEN [c |-> result.c, err |-> TRUE, result |-> <<>>,
                    failK |-> k, ds |-> Append(ds, result.rec)]
              ELSE AppendRecordsLoop(result.c, zone, records, k + 1,
                                     Append(created, libdnsRec.rec),
                                     Append(ds, result.rec))))

AppendRecords(c, zone, records) ==
    AppendRecordsLoop(c, zone, records, 1, <<>>, <<>>)

RECURSIVE DeleteRecordsLoop(_, _, _, _)
DeleteRecordsLoop(c, zone, records, k) ==
    IF k > Len(records)
    THEN [c |-> c, err |-> FALSE, result |-> records, failK |-> 0, ds |-> <<>>]
    ELSE Bind(deleteDNSRecord([c EXCEPT !.k = k], zone,
                              libdnsRecordTodsDNSRecord(records[k])),
              LAMBDA r :
         IF r.err
         THEN [c |-> r.c, err |-> TRUE, result |-> <<>>, failK |-> k,
               ds |-> <<>>]
         ELSE DeleteRecordsLoop(r.c, zone, records, k + 1))

DeleteRecords(c, zone, records) == DeleteRecordsLoop(c, zone, records, 1)

\* The first loop of SetRecords: one create or update per input record.
RECURSIVE SetRecordsLoop(_, _, _, _, _)
SetRecordsLoop(c, zone, records, k, appendedRecords) ==
    IF k > Len(records)
    THEN [c |-> c, err |-> FALSE, failK |-> 0, ds |-> appendedRecords]
    ELSE Bind(createOrUpdateDNSRecord([c EXCEPT !.k = k], zone,
                                      libdnsRecordTodsDNSRecord(records[k])),
              LAMBDA newRecord :
         IF newRecord.err
         THEN [c |-> newRecord.c, err |-> TRUE, failK |-> k,
               ds |-> appendedRecords]
         ELSE SetRecordsLoop(newRecord.c, zone, records, k + 1,
                             Append(appendedRecords, newRecord.rec)))

\* The second loop of SetRecords: the reverse mapping of every result.
RECURSIVE SetRecordsConvert(_, _, _)
SetRecordsConvert(appendedRecords, k, recs) ==
    IF k > Len(appendedRecords) THEN [err |-> FALSE, result |-> recs, failK |-> 0]
    ELSE Bind(libdnsRecord(appendedRecords[k]), LAMBDA libdnsRec :
         IF libdnsRec.err THEN [err |-> TRUE, result |-> <<>>, failK |-> k]
         ELSE SetRecordsConvert(appendedRecords, k + 1,
                                Append(recs, libdnsRec.rec)))

SetRecords(c, zone, records) ==
    Bind(SetRecordsLoop(c, zone, records, 1, <<>>), LAMBDA set :
    IF set.err
    THEN [c |-> set.c, err |-> TRUE, result |-> <<>>, failK |-> set.failK,
          ds |-> set.ds]
    ELSE Bind(SetRecordsConvert(set.ds, 1, <<>>), LAMBDA recs :
         [c |-> set.c, err |-> recs.err, result |-> recs.result,
          failK |-> recs.failK, ds |-> set.ds]))

\* ------------------------------------------------------------------ inputs

ZoneDot == <<"z", ".">>

\* The zone argument, with and without trailing dot.
Zones == {ZoneName, ZoneDot}

NameA == <<"a">>
NameB == <<"b">>
NameAbs == <<"a", ".", "z">>
NameFqdn == <<"a", ".", "z", ".">>
DataD == <<"d">>
DataE == <<"e">>
Mail == <<"m">>

TTL120 == 120 * Second

\* A text record under a relative name.
RecTxt == MkRR(NameA, TTL120, "TXT", DataD)
\* The same name, absolute without and with trailing dot; the latter without TTL.
RecAbs == MkRR(NameAbs, TTL120, "TXT", DataD)
RecFqdn == MkRR(NameFqdn, 0, "TXT", DataD)
\* A mail-exchange record.
RecMX == MkMX(NameB, TTL120, 10, Mail, 0)
\* The text record the zone may hold, with new text, carrying provider
\* identifier 1.
RecNew == MkTXT(NameA, TTL120, DataE, 1)
\* A flattened record of type MX: it has no priority attribute.
RecRaw == MkRR(NameB, TTL120, "MX", DataD)

Batches ==
    {<<RecTxt>>, <<RecMX>>, <<RecNew>>, <<RecAbs, RecFqdn>>, <<RecRaw, RecTxt>>}

\* ------------------------------------------------------------------- state

VARIABLES
    zones,          \* Provider.zones
    knownRecords,   \* Provider.knownRecords
    remote,         \* the records of the remote zone, in the order it lists them
    nextID,         \* the identifier the remote assigns next
    last,           \* the call that has returned, until the caller takes it
    opCount,        \* operations called so far
    lastAppend,     \* the last successful AppendRecords: zone, result, identifiers
    gone,           \* records a successful DeleteRecords removed and nothing recreated
    norm,           \* a name, a zone and what normalizeRecordName makes of them
    codec,          \* a record and what the mappings of models.go make of it
    look,           \* a record cache, a candidate and what the cache functions return
    procs,          \* the concurrent callers of one instance: where each stands
    mu,             \* Provider.zonesMu and Provider.knownRecordsMu: the holder, or 0
    heap,           \* the slices refreshes have allocated, by address
    slices,         \* Provider.knownRecords by reference: zone -> address of its slice
    hist            \* what the concurrent callers have done so far

\* The state of an instance used by one caller at a time, and of its remote.
instance == <<zones, knownRecords, remote, nextID, last, opCount, lastAppend, gone>>

\* The arguments and results of the functions studied on their own.
pure == <<norm, codec, look>>

\* The state of an instance used by concurrent callers.
threads == <<procs, mu, heap, slices, hist>>

vars == <<instance, pure, threads>>

NoMap == <<>>

NoCall ==
    [op |-> "none", zone |-> <<>>, input |-> <<>>, failAt |-> 0, err |-> FALSE,
     result |-> <<>>, failK |-> 0, ds |-> <<>>, reqs |-> <<>>,
     before |-> [remote |-> <<>>, knownRecords |-> NoMap, zones |-> NoMap,
                 gone |-> {}]]

NoAppend == [zone |-> <<>>, input |-> <<>>, result |-> <<>>, ids |-> <<>>]

NoNorm == [name |-> <<>>, zone |-> <<>>, done |-> FALSE, out |-> <<>>]

NoCodec == [side |-> "none", rec |-> <<>>, done |-> FALSE, out |-> <<>>]

NoLook == [known |-> NoMap, zone |-> <<>>, record |-> <<>>, done |-> FALSE,
           out |-> <<>>]

\* The concurrent callers.
Procs == {1, 2}

NoResponse == [err |-> FALSE, zones |-> <<>>, records |-> <<>>, record |-> EmptyRecord]

\* A caller that is in no operation.  In an operation it holds the operation,
\* its zone argument and its one input record as a provider record; the
\* place to go on at after getDomainInfo (then) and after
\* getAllDomainRecords (after); the zone resolved, the response received,
\* the address of the slice fetched, the loop index, the record found,
\* whether getDNSRecord has refreshed; the requests issued, the error and
\* the provider records to return.
NoProc ==
    [pc |-> "idle", op |-> "none", zone |-> <<>>, rec |-> EmptyRecord,
     then |-> "", after |-> "", domain |-> NoZone, resp |-> NoResponse,
     slice |-> 0, k |-> 0, found |-> EmptyRecord, refreshed |-> FALSE,
     reqs |-> <<>>, err |-> FALSE, ds |-> <<>>, calls |-> 0]

NoHist == [lost |-> 0, requeried |-> {}, created |-> {}, deleted |-> {}]

\* No concurrent caller has called.
Unthreaded ==
    /\ procs = [p \in Procs |-> NoProc]
    /\ mu = [zones |-> 0, known |-> 0]
    /\ heap = <<>>
    /\ slices = NoMap
    /\ hist = NoHist

\* A record the zone held before this instance was made.
Preexisting == [EmptyRecord EXCEPT !.ID = 1, !.Host = NameA, !.Data = DataD,
                                   !.Type = "TXT", !.TTL = 120]

Provider ==
    /\ zones = NoMap
    /\ knownRecords = NoMap
    /\ \/ remote = <<>> /\ nextID = 1
       \/ remote = <<Preexisting>> /\ nextID = 2
    /\ last = NoCall
    /\ opCount = 0
    /\ lastAppend = NoAppend
    /\ gone = {}

Init == Provider /\ norm = NoNorm /\ codec = NoCodec /\ look = NoLook /\ Unthreaded

Context(failAt) ==
    [zones |-> zones, knownRecords |-> knownRecords, remote |-> remote,
     nextID |-> nextID, reqs |-> <<>>, failAt |-> failAt, k |-> 0]

\* The remote zone holds a record with the host and data of generic record r.
RemoteHolds(records, r) ==
    LET dsrr == libdnsRecordTodsDNSRecord(r)
    IN \E i \in 1..Len(records) :
          /\ records[i].Data = dsrr.Data
          /\ \/ records[i].Host = dsrr.Host
             \/ records[i].Host = normalizeRecordName(dsrr.Host, ZoneName)

\* The input records of a call for which it issued a DELETE that succeeded.
Deleted(input, reqs) ==
    {input[k] : k \in {j \in 1..Len(input) :
        \E n \in 1..Len(reqs) :
            reqs[n].method = "DELETE" /\ reqs[n].k = j /\ ~reqs[n].err}}

\* The return of a call: the instance and the remote as the operation left
\* them, and what the caller sees.
Returns(op, zone, input, failAt, out) ==
    /\ out.c.nextID <= MaxID + 1
    /\ zones' = out.c.zones
    /\ knownRecords' = out.c.knownRecords
    /\ remote' = out.c.remote
    /\ nextID' = out.c.nextID
    /\ opCount' = opCount + 1
    /\ last' = [op |-> op, zone |-> zone, input |-> input, failAt |-> failAt,
                err |-> out.err, result |-> out.result, failK |-> out.failK,
                ds |-> out.ds, reqs |-> out.c.reqs,
                before |-> [remote |-> remote, knownRecords |-> knownRecords,
                            zones |-> zones, gone |-> gone]]
    /\ lastAppend' =
          IF op = "AppendRecords" /\ ~out.err
          THEN [zone |-> zone, input |-> input, result |-> out.result,
                ids |-> [k \in 1..Len(out.ds) |-> out.ds[k].ID]]
          ELSE lastAppend
    /\ gone' =
          {r \in gone \cup (IF op = "DeleteRecords" /\ ~out.err
                            THEN Deleted(input, out.c.reqs) ELSE {}) :
              ~RemoteHolds(out.c.remote, r)}
    /\ UNCHANGED <<pure, threads>>

Idle == last.op = "none" /\ opCount < MaxOps

\* The batches a caller passes: the inputs above, or what the last
\* AppendRecords returned.
Passed == Batches \cup {b \in {lastAppend.result} : b # <<>>}

CallGetRecords ==
    /\ Idle
    /\ \E zone \in Zones, failAt \in 0..MaxFail :
          Returns("GetRecords", zone, <<>>, failAt,
                  GetRecords(Context(failAt), zone))

CallAppendRecords ==
    /\ Idle
    /\ \E zone \in Zones, records \in Batches, failAt \in 0..MaxFail :
          Returns("AppendRecords", zone, records, failAt,
                  AppendRecords(Context(failAt), zone, records))

CallDeleteRecords ==
    /\ Idle
    /\ \E zone \in Zones, records \in Passed, failAt \in 0..MaxFail :
          Returns("DeleteRecords", zone, records, failAt,
                  DeleteRecords(Context(failAt), zone, records))

CallSetRecords ==
    /\ Idle
    /\ \E zone \in Zones, records \in Passed, failAt \in 0..MaxFail :
          Returns("SetRecords", zone, records, failAt,
                  SetRecords(Context(failAt), zone, records))

\* The caller takes the result.
Return ==
    /\ last.op # "none"
    /\ last' = NoCall
    /\ UNCHANGED <<zones, knownRecords, remote, nextID, opCount, lastAppend, gone,
                   pure, threads>>

Next ==
    \/ CallGetRecords
    \/ CallAppendRecords
    \/ CallDeleteRecords
    \/ CallSetRecords
    \/ Return

Spec == Init /\ [][Next]_vars

\* --------------------------------------------- the client's update path

\* Provider records passed to createOrUpdateDNSRecord: record 1 with new data,
\* record 2 with the host and data of the record the zone held, and a record
\* without identifier.
DsUpdate == [EmptyRecord EXCEPT !.ID = 1, !.Host = NameA, !.Data = DataE,
                                !.Type = "TXT", !.TTL = 120]
DsUpdateSame == [EmptyRecord EXCEPT !.ID = 2, !.Host = NameA, !.Data = DataD,
                                    !.Type = "TXT"]
DsCreate == [EmptyRecord EXCEPT !.Host = NameB, !.Data = DataE, !.Type = "TXT"]

DsInputs == {DsUpdate, DsUpdateSame, DsCreate}

\* A call of createOrUpdateDNSRecord with a provider record, as SetRecords
\* makes it for input record 1.
CallCreateOrUpdate ==
    /\ Idle
    /\ \E zone \in Zones, r \in DsInputs, failAt \in 0..MaxFail :
          Returns("createOrUpdateDNSRecord", zone, <<r>>, failAt,
                  Bind(createOrUpdateDNSRecord([Context(failAt) EXCEPT !.k = 1],
                                               zone, r), LAMBDA out :
                       [c |-> out.c, err |-> out.err, result |-> <<>>,
                        failK |-> IF out.err THEN 1 ELSE 0, ds |-> <<out.rec>>]))

NextClient == Next \/ CallCreateOrUpdate

SpecClient == Init /\ [][NextClient]_vars

\* ---------------------------------------------------------- time to live

\* Times to live: none, half a second, one second, three seconds and a
\* half, a minute, two minutes.
Ttls == {0, 1, Second, 3 * Second + 1, 60 * Second, TTL120}

\* One text record with each time to live, new or carrying provider
\* identifier 1.
TtlBatches == {<<MkTXT(NameB, t, DataE, pd)>> : t \in Ttls, pd \in {0, 1}}

\* AppendRecords or SetRecords with a record of some time to live.
CallWithTtl ==
    /\ Idle
    /\ \E zone \in Zones, records \in TtlBatches, failAt \in 0..MaxFail :
          \/ Returns("AppendRecords", zone, records, failAt,
                     AppendRecords(Context(failAt), zone, records))
          \/ Returns("SetRecords", zone, records, failAt,
                     SetRecords(Context(failAt), zone, records))

NextTtl == NextClient \/ CallWithTtl

SpecTtl == Init /\ [][NextTtl]_vars

\* ------------------------------------------------- the name normalisation

Alphabet == {"a", "z", "."}

\* The strings of 1 to MaxLen characters.
Names == UNION {[1..n -> Alphabet] : n \in 1..MaxLen}

\* Zone names, without trailing dot.
NormZones == {ZoneName, NameAbs}

InitNormalize ==
    /\ Provider
    /\ norm \in {[NoNorm EXCEPT !.name = n, !.zone = z] : n \in Names, z \in NormZones}
    /\ codec = NoCodec /\ look = NoLook /\ Unthreaded

\* normalizeRecordName applied to the name as it stands, with the zone
\* appended and with the zone and a trailing dot appended, and to the zone
\* itself with and without trailing dot, each against the zone without (1)
\* and with (2) trailing dot.
Normalize ==
    /\ ~norm.done
    /\ LET n == norm.name
           z == norm.zone
           spellings == <<n, n \o <<".">> \o z, n \o <<".">> \o z \o <<".">>>>
           apexes == <<z, z \o <<".">>>>
           against == <<z, z \o <<".">>>>
       IN norm' = [norm EXCEPT
              !.done = TRUE,
              !.out = [names |-> [i \in 1..3 |-> [j \in 1..2 |->
                                    normalizeRecordName(spellings[i], against[j])]],
                       apex |-> [i \in 1..2 |-> [j \in 1..2 |->
                                    normalizeRecordName(apexes[i], against[j])]]]]
    /\ UNCHANGED <<instance, codec, look, threads>>

SpecNormalize == InitNormalize /\ [][Normalize]_vars

\* ------------------------------------------------------- the record cache

\* Entries per cached slice.
MaxEntries == 2

\* Cached entries and candidates: identifier 0 (none, or tombstoned), 1 or 2,
\* two hosts, two data values.
Entries ==
    {[EmptyRecord EXCEPT !.ID = i, !.Host = h, !.Data = d, !.Type = "TXT",
                         !.TTL = 120] :
        i \in 0..MaxID, h \in {NameA, NameB}, d \in {DataD, DataE}}

Slices == UNION {[1..n -> Entries] : n \in 0..MaxEntries}

\* Record caches: none, one with a slice for the zone, one that holds a slice
\* for the other spelling of the zone besides.
Caches ==
    {NoMap}
    \cup {(ZoneName :> sl) : sl \in Slices}
    \cup {(ZoneName :> sl) @@ (ZoneDot :> <<Preexisting>>) : sl \in Slices}

InitCache ==
    /\ Provider
    /\ norm = NoNorm /\ codec = NoCodec /\ Unthreaded
    /\ look \in {[NoLook EXCEPT !.known = kn, !.zone = ZoneName, !.record = r] :
                    kn \in Caches, r \in Entries}

\* getRecordFromKnownRecords on the cache.
Lookup ==
    /\ ~look.done
    /\ look' = [look EXCEPT
          !.done = TRUE,
          !.out = [op |-> "lookup",
                   rec |-> getRecordFromKnownRecords([knownRecords |-> look.known],
                                                     look.record, look.zone)]]
    /\ UNCHANGED <<instance, norm, codec, threads>>

\* removeRecordFromKnownRecords on the cache: the cache it leaves and what
\* it returns.
Remove ==
    /\ ~look.done
    /\ look' = [look EXCEPT
          !.done = TRUE,
          !.out = [op |-> "remove",
                   known |-> removeRecordFromKnownRecords(
                                [knownRecords |-> look.known],
                                look.record, look.zone).knownRecords,
                   found |-> removeRecordFromKnownRecordsFound(
                                [knownRecords |-> look.known],
                                look.record, look.zone)]]
    /\ UNCHANGED <<instance, norm, codec, threads>>

NextCache == Lookup \/ Remove

SpecCache == InitCache /\ [][NextCache]_vars

\* ------------------------------------------------------------- the mappings

\* The host, priority, weight and port of the service record of the
\* repository's example: "_sip._tcp.example.com", "10", "5", "5060".
SipHost ==
    <<"_", "s", "i", "p", ".", "_", "t", "c", "p", ".",
      "e", "x", "a", "m", "p", "l", "e", ".", "c", "o", "m">>

\* Hosts of provider records of type SRV: the example, one of two labels, one
\* of one label, one without underscores.
SrvHosts ==
    {SipHost, <<"_", "s", ".", "_", "t">>, <<"_", "s">>, <<"s", ".", "t">>}

\* What the provider's string attributes may hold: numbers, nothing, no
\* number, a number beyond 16 bits.
Attributes ==
    {<<"1", "0">>, <<"5">>, <<"5", "0", "6", "0">>, <<>>, <<"x">>,
     <<"6", "5", "5", "3", "6">>}

\* Provider records as the remote may send them.
ProviderSamples ==
    {[EmptyRecord EXCEPT !.ID = 1, !.Host = h, !.Data = Mail, !.Type = "SRV",
                         !.TTL = 120, !.Priority = p, !.Weight = w, !.Port = q] :
        h \in SrvHosts, p \in Attributes, w \in Attributes, q \in Attributes}
    \cup {[EmptyRecord EXCEPT !.ID = 1, !.Host = NameB, !.Data = Mail, !.Type = "MX",
                              !.TTL = 120, !.Priority = p] : p \in Attributes}
    \cup {Preexisting}

\* The values of a 16-bit field and the times to live of the generic records.
Fields == {0, 10, 5060, 65535}

Durations == {0, TTL120, 3600 * Second}

\* Well-formed generic records of the kinds the mappings distinguish.
GenericSamples ==
    {MkTXT(n, t, DataD, 0) : n \in {NameA, <<"@">>}, t \in Durations}
    \cup {MkRR(n, t, "TXT", DataD) : n \in {NameA, <<"@">>}, t \in Durations}
    \cup {MkMX(NameB, t, f, Mail, 0) : t \in Durations, f \in Fields}
    \cup {MkSRV(<<"s">>, <<"t">>, NameA, TTL120, f, g, h, Mail, 0) :
             f \in Fields, g \in Fields, h \in Fields}

InitCodec ==
    /\ Provider
    /\ norm = NoNorm /\ look = NoLook /\ Unthreaded
    /\ codec \in {[NoCodec EXCEPT !.side = "provider", !.rec = r] :
                     r \in ProviderSamples}
               \cup {[NoCodec EXCEPT !.side = "generic", !.rec = r] :
                        r \in GenericSamples}

\* The reverse mapping of a provider record.
Reverse ==
    /\ ~codec.done /\ codec.side = "provider"
    /\ codec' = [codec EXCEPT !.done = TRUE, !.out = libdnsRecord(codec.rec)]
    /\ UNCHANGED <<instance, norm, look, threads>>

\* The forward mapping of a generic record and the reverse mapping of what
\* it gives.
RoundTrip ==
    /\ ~codec.done /\ codec.side = "generic"
    /\ codec' = [codec EXCEPT
           !.done = TRUE,
           !.out = libdnsRecord(libdnsRecordTodsDNSRecord(codec.rec))]
    /\ UNCHANGED <<instance, norm, look, threads>>

NextCodec == Reverse \/ RoundTrip

SpecCodec == InitCodec /\ [][NextCodec]_vars

\* ----------------------------------------------------- concurrent callers

\* Operations per concurrent caller.
MaxCalls == 2
\* Requests the transport loses in a behaviour of concurrent callers.
MaxLost == 1
\* Slices the refreshes of a behaviour allocate.
MaxSlices == 2

\* The zone arguments of the concurrent callers.
ZoneArgs == {ZoneName, ZoneDot, ZoneTwice, ZoneAbsent}

\* getDomainInfo as it would be if it never found a zone in its map.
ZoneKnownNever(zs, zone) == FALSE

\* The test "if zone, ok := p.zones[zone]; ok" of getDomainInfo.
ZoneKnown(zs, zone) == zone \in DOMAIN zs

\* createDNSRecord's result as it would be without the identifier.
CreatedUnnumbered(record, result) == record

\* createDNSRecord's result: the record sent, with the identifier received.
Created(record, result) == [record EXCEPT !.ID = result.ID]

\* p.knownRecords by value.
Snapshot(sl, hp) == [z \in DOMAIN sl |-> hp[sl[z]]]

\* One request through doRequest, lost by the transport or answered.
Transport(lost, req) ==
    doRequest([remote |-> remote, nextID |-> nextID, reqs |-> <<>>,
               failAt |-> IF lost THEN 1 ELSE 0, k |-> 1], req)

\* The transport may lose a request while it has lost fewer than MaxLost.
MayLose(lost) == lost => hist.lost < MaxLost

\* Caller p has sent req, r is what doRequest gives, and p waits at pc next.
Sent(p, req, r, next) ==
    /\ remote' = r.c.remote
    /\ nextID' = r.c.nextID
    /\ procs' = [procs EXCEPT
          ![p].pc = next,
          ![p].resp = [err |-> r.err, zones |-> r.zones, records |-> r.records,
                       record |-> r.record],
          ![p].reqs = Append(@, [method |-> req.method, endpoint |-> req.endpoint,
                                 id |-> req.id])]

\* The operation of caller p ends: the error and records it returns.
Ends(p, err, ds) ==
    procs' = [procs EXCEPT ![p].pc = "ret", ![p].err = err, ![p].ds = ds]

\* A caller calls GetRecords, AppendRecords or DeleteRecords, the latter two
\* with the one text record; each starts by resolving the zone.
Call(p) ==
    /\ procs[p].pc = "idle"
    /\ procs[p].calls < MaxCalls
    /\ \E op \in {"GetRecords", "AppendRecords", "DeleteRecords"}, zone \in ZoneArgs :
          procs' = [procs EXCEPT ![p] =
              [NoProc EXCEPT
                  !.pc = "getDomainInfo", !.op = op, !.zone = zone,
                  !.calls = procs[p].calls,
                  !.rec = IF op = "GetRecords" THEN EmptyRecord
                          ELSE libdnsRecordTodsDNSRecord(RecTxt),
                  !.then = CASE op = "GetRecords" -> "getAllDomainRecords"
                             [] op = "AppendRecords" -> "createDNSRecord"
                             [] op = "DeleteRecords" -> "getDNSRecord",
                  !.after = IF op = "GetRecords" THEN "GetRecords" ELSE "getDNSRecord"]]
    /\ UNCHANGED <<instance, pure, mu, heap, slices, hist>>

\* getDomainInfo, lines 46-54: with zonesMu, the zone is taken from the map
\* and the lock released, or the lock is kept for the query.
ResolveZone(p) ==
    /\ procs[p].pc = "getDomainInfo"
    /\ mu.zones = 0
    /\ IF ZoneKnown(zones, procs[p].zone)
       THEN /\ procs' = [procs EXCEPT ![p].pc = procs[p].then,
                                      ![p].domain = zones[procs[p].zone]]
            /\ UNCHANGED mu
       ELSE /\ procs' = [procs EXCEPT ![p].pc = "zones request"]
            /\ mu' = [mu EXCEPT !.zones = p]
    /\ UNCHANGED <<instance, pure, heap, slices, hist>>

\* getDomainInfo, lines 56-62: the zone query goes out.
SendZonesRequest(p) ==
    /\ procs[p].pc = "zones request"
    /\ \E lost \in BOOLEAN :
          /\ MayLose(lost)
          /\ LET req == ZonesRequest(removeFQDNTrailingDot(procs[p].zone))
             IN Sent(p, req, Transport(lost, req), "zones response")
          /\ hist' = [hist EXCEPT
                !.lost = IF lost THEN @ + 1 ELSE @,
                !.requeried = IF procs[p].zone \in DOMAIN zones
                              THEN @ \cup {procs[p].zone} ELSE @]
    /\ UNCHANGED <<zones, knownRecords, last, opCount, lastAppend, gone, pure, mu,
                   heap, slices>>

\* getDomainInfo, lines 63-72: the answer is in; one zone is stored, anything
\* else is an error; zonesMu is released on return.
ReceiveZones(p) ==
    /\ procs[p].pc = "zones response"
    /\ mu' = [mu EXCEPT !.zones = 0]
    /\ IF procs[p].resp.err \/ Len(procs[p].resp.zones) # 1
       THEN /\ Ends(p, TRUE, <<>>)
            /\ UNCHANGED zones
       ELSE /\ zones' = (procs[p].zone :> procs[p].resp.zones[1]) @@ zones
            /\ procs' = [procs EXCEPT ![p].pc = procs[p].then,
                                      ![p].domain = procs[p].resp.zones[1]]
    /\ UNCHANGED <<knownRecords, remote, nextID, last, opCount, lastAppend, gone,
                   pure, heap, slices, hist>>

\* getAllDomainRecords, lines 81-87: the records query goes out.
SendRecordsRequest(p) ==
    /\ procs[p].pc = "getAllDomainRecords"
    /\ Len(heap) < MaxSlices
    /\ \E lost \in BOOLEAN :
          /\ MayLose(lost)
          /\ Sent(p, RecordsRequest, Transport(lost, RecordsRequest),
                  "records response")
          /\ hist' = [hist EXCEPT !.lost = IF lost THEN @ + 1 ELSE @]
    /\ UNCHANGED <<zones, knownRecords, last, opCount, lastAppend, gone, pure, mu,
                   heap, slices>>

\* getAllDomainRecords, lines 88-90: the answer is in.
ReceiveRecords(p) ==
    /\ procs[p].pc = "records response"
    /\ IF procs[p].resp.err
       THEN Ends(p, TRUE, <<>>)
       ELSE procs' = [procs EXCEPT ![p].pc = "save records"]
    /\ UNCHANGED <<instance, pure, mu, heap, slices, hist>>

\* getAllDomainRecords, lines 93-100: with knownRecordsMu, the slice decoded
\* from the answer becomes the zone's entry of the map; the same slice is
\* returned.
SaveRecords(p) ==
    /\ procs[p].pc = "save records"
    /\ mu.known = 0
    /\ heap' = Append(heap, procs[p].resp.records)
    /\ slices' = (procs[p].zone :> Len(heap) + 1) @@ slices
    /\ knownRecords' = Snapshot(slices', heap')
    /\ procs' = [procs EXCEPT ![p].pc = procs[p].after,
                              ![p].slice = Len(heap) + 1,
                              ![p].k = 1]
    /\ UNCHANGED <<zones, remote, nextID, last, opCount, lastAppend, gone, pure,
                   mu, hist>>

\* GetRecords, lines 33-43: one turn of the loop over the slice returned,
\* read without a lock, or its end.
ListRecord(p) ==
    /\ procs[p].pc = "GetRecords"
    /\ IF procs[p].k > Len(heap[procs[p].slice])
       THEN Ends(p, FALSE, procs[p].ds)
       ELSE IF libdnsRecord(heap[procs[p].slice][procs[p].k]).err
       THEN Ends(p, TRUE, <<>>)
       ELSE procs' = [procs EXCEPT
               ![p].k = @ + 1,
               ![p].ds = Append(@, heap[procs[p].slice][procs[p].k])]
    /\ UNCHANGED <<instance, pure, mu, heap, slices, hist>>

\* createDNSRecord, lines 162-181: the create request goes out.
SendCreate(p) ==
    /\ procs[p].pc = "createDNSRecord"
    /\ nextID <= MaxID
    /\ \E lost \in BOOLEAN :
          /\ MayLose(lost)
          /\ LET named == [procs[p].rec EXCEPT
                              !.Host = normalizeRecordName(@, procs[p].zone)]
                 req == CreateRequest(RequestData(named))
             IN Sent(p, req, Transport(lost, req), "create response")
          /\ hist' = [hist EXCEPT !.lost = IF lost THEN @ + 1 ELSE @]
    /\ UNCHANGED <<zones, knownRecords, last, opCount, lastAppend, gone, pure, mu,
                   heap, slices>>

\* createDNSRecord, lines 182-188, and AppendRecords, lines 61-66: the answer
\* is in; the record takes the identifier received and is mapped back.
ReceiveCreate(p) ==
    /\ procs[p].pc = "create response"
    /\ LET named == [procs[p].rec EXCEPT
                        !.Host = normalizeRecordName(@, procs[p].zone)]
           result == Created(named, procs[p].resp.record)
       IN IF procs[p].resp.err
          THEN Ends(p, TRUE, <<>>) /\ UNCHANGED hist
          ELSE /\ Ends(p, libdnsRecord(result).err, <<result>>)
               /\ hist' = [hist EXCEPT !.created =
                     @ \cup {[proc |-> p, call |-> procs[p].calls, rec |-> result]}]
    /\ UNCHANGED <<instance, pure, mu, heap, slices>>

\* getDNSRecord, lines 108-123, and deleteDNSRecord, lines 138-140: with
\* knownRecordsMu, the record is looked up in the cache; what is found is
\* deleted; nothing found, the zone is refreshed once, and nothing found
\* then, there is nothing to delete.
LookupRecord(p) ==
    /\ procs[p].pc = "getDNSRecord"
    /\ mu.known = 0
    /\ LET dsrecord == getRecordFromKnownRecords([knownRecords |-> knownRecords],
                                                 procs[p].rec, procs[p].zone)
       IN IF dsrecord # EmptyRecord
          THEN procs' = [procs EXCEPT ![p].pc = "deleteDNSRecord",
                                      ![p].found = dsrecord]
          ELSE IF ~procs[p].refreshed
          THEN procs' = [procs EXCEPT ![p].pc = "getDomainInfo",
                                      ![p].then = "getAllDomainRecords",
                                      ![p].refreshed = TRUE]
          ELSE Ends(p, FALSE, <<>>)
    /\ UNCHANGED <<instance, pure, mu, heap, slices, hist>>

\* deleteDNSRecord, lines 142-148: the delete request goes out.
SendDelete(p) ==
    /\ procs[p].pc = "deleteDNSRecord"
    /\ \E lost \in BOOLEAN :
          /\ MayLose(lost)
          /\ LET req == DeleteRequest(procs[p].found.ID)
                 r == Transport(lost, req)
             IN /\ Sent(p, req, r, "delete response")
                /\ hist' = [hist EXCEPT
                      !.lost = IF lost THEN @ + 1 ELSE @,
                      !.deleted = IF r.err THEN @ ELSE @ \cup {procs[p].found.ID}]
    /\ UNCHANGED <<zones, knownRecords, last, opCount, lastAppend, gone, pure, mu,
                   heap, slices>>

\* deleteDNSRecord, lines 149-152, and removeRecordFromKnownRecords, line
\* 250: the answer is in; knownRecordsMu is taken for the invalidation.
ReceiveDelete(p) ==
    /\ procs[p].pc = "delete response"
    /\ IF procs[p].resp.err
       THEN Ends(p, TRUE, <<>>) /\ UNCHANGED mu
       ELSE /\ mu.known = 0
            /\ mu' = [mu EXCEPT !.known = p]
            /\ procs' = [procs EXCEPT ![p].pc = "removeRecordFromKnownRecords"]
    /\ UNCHANGED <<instance, pure, heap, slices, hist>>

\* removeRecordFromKnownRecords, lines 252-264: the identifier of the entry
\* is set to 0 in the slice the map holds for the zone, and knownRecordsMu
\* released.
Invalidate(p) ==
    /\ procs[p].pc = "removeRecordFromKnownRecords"
    /\ knownRecords' = removeRecordFromKnownRecords(
                           [knownRecords |-> knownRecords], procs[p].found,
                           procs[p].zone).knownRecords
    /\ heap' = [a \in 1..Len(heap) |->
                   IF procs[p].zone \in DOMAIN slices /\ slices[procs[p].zone] = a
                   THEN knownRecords'[procs[p].zone]
                   ELSE heap[a]]
    /\ mu' = [mu EXCEPT !.known = 0]
    /\ Ends(p, FALSE, <<>>)
    /\ UNCHANGED <<zones, remote, nextID, last, opCount, lastAppend, gone, pure,
                   slices, hist>>

\* The caller takes what the operation returns.
Returned(p) ==
    /\ procs[p].pc = "ret"
    /\ procs' = [procs EXCEPT ![p] = [NoProc EXCEPT !.calls = procs[p].calls + 1]]
    /\ UNCHANGED <<instance, pure, mu, heap, slices, hist>>

Step(p) ==
    \/ Call(p)
    \/ ResolveZone(p)
    \/ SendZonesRequest(p)
    \/ ReceiveZones(p)
    \/ SendRecordsRequest(p)
    \/ ReceiveRecords(p)
    \/ SaveRecords(p)
    \/ ListRecord(p)
    \/ SendCreate(p)
    \/ ReceiveCreate(p)
    \/ LookupRecord(p)
    \/ SendDelete(p)
    \/ ReceiveDelete(p)
    \/ Invalidate(p)
    \/ Returned(p)

NextConcurrent == \E p \in Procs : Step(p)

SpecConcurrent == Init /\ [][NextConcurrent]_vars

\* ------------------------------------------------------------------ claims

\* Every request the returned call issued was answered without error.
TransportOK == \A n \in 1..Len(last.reqs) : ~last.reqs[n].err

\* The returned call is a GetRecords on the zone of the last successful
\* AppendRecords, whose records are all still in the remote zone, and every
\* request it issued was answered.
ListsAfterAppend ==
    /\ last.op = "GetRecords"
    /\ lastAppend.result # <<>>
    /\ lastAppend.zone = last.zone
    /\ \A k \in 1..Len(lastAppend.ids) : HasID(last.before.remote, lastAppend.ids[k])
    /\ TransportOK

\* The listing holds every appended name and at least as many records.
ListsAppended ==
    /\ Len(last.result) >= Len(lastAppend.input)
    /\ \A k \in 1..Len(lastAppend.input) :
          \E j \in 1..Len(last.result) :
              RR(last.result[j]).Name =
                  normalizeRecordName(RR(lastAppend.input[k]).Name, last.zone)

DeletedAppended ==
    /\ last.op = "DeleteRecords"
    /\ ~last.err
    /\ lastAppend.result # <<>>
    /\ last.input = lastAppend.result
    /\ last.zone = lastAppend.zone

\* C2, as stated: when the records a successful AppendRecords returned are
\* passed to DeleteRecords and it succeeds, every remote record the append
\* created has been removed, whatever the record cache held before.
C2_DeleteRemovesAppended ==
    DeletedAppended =>
        \A k \in 1..Len(lastAppend.ids) : ~HasID(remote, lastAppend.ids[k])

\* C3, as stated: a successful AppendRecords returns one record per input
\* record, in input order, with the type, data and TTL of the input and its
\* name normalized against the zone.
C3_AppendResult ==
    last.op = "AppendRecords" /\ ~last.err =>
        /\ Len(last.result) = Len(last.input)
        /\ \A k \in 1..Len(last.input) :
              /\ RR(last.result[k]).Type = RR(last.input[k]).Type
              /\ RR(last.result[k]).Data = RR(last.input[k]).Data
              /\ RR(last.result[k]).TTL = RR(last.input[k]).TTL
              /\ RR(last.result[k]).Name =
                    normalizeRecordName(RR(last.input[k]).Name, last.zone)

\* Generic record r matches no entry of the provider records by identifier or
\* by host and data.
MatchesNothing(r, records) ==
    \A i \in 1..Len(records) : ~KnownMatch(libdnsRecordTodsDNSRecord(r), records[i])

\* The returned call is a DeleteRecords whose records match nothing in the
\* zone's cached snapshot and nothing in the remote zone, which it fetched.
DeletedUnknown ==
    /\ last.op = "DeleteRecords"
    /\ TransportOK
    /\ \A k \in 1..Len(last.input) :
          /\ last.zone \in DOMAIN last.before.knownRecords =>
                MatchesNothing(last.input[k], last.before.knownRecords[last.zone])
          /\ MatchesNothing(last.input[k], last.before.remote)

\* C5: DeleteRecords of records that match nothing in the zone's cache and
\* nothing after a full refresh returns no error and the input records, issues
\* no DELETE request and leaves the remote records unchanged.
C5_SoftSuccess ==
    DeletedUnknown =>
        /\ ~last.err
        /\ last.result = last.input
        /\ \A n \in 1..Len(last.reqs) : last.reqs[n].method # "DELETE"
        /\ \E n \in 1..Len(last.reqs) :
              last.reqs[n].method = "GET" /\ last.reqs[n].endpoint = "dns"
        /\ remote = last.before.remote

\* C5 witness: such a delete of two records on a zone that holds a record, by
\* an instance that had a snapshot of the zone.
C5_Witness ==
    /\ DeletedUnknown
    /\ Len(last.input) = 2
    /\ last.before.remote # <<>>
    /\ last.zone \in DOMAIN last.before.knownRecords
    /\ ~last.err

\* C6, as stated: once a successful DeleteRecords has deleted a record and
\* nothing has recreated it, a later DeleteRecords of it (under either spelling
\* of the zone, the transport failing no request) returns success, issues no
\* DELETE request and changes no remote record.
C6_DeleteIdempotent ==
    /\ last.op = "DeleteRecords"
    /\ last.failAt = 0
    /\ \A k \in 1..Len(last.input) : last.input[k] \in last.before.gone
    =>
    /\ ~last.err
    /\ \A n \in 1..Len(last.reqs) : last.reqs[n].method # "DELETE"
    /\ remote = last.before.remote

\* The provider identifier a generic record carries (0: none).
ProviderID(r) == IF r.kind = "RR" THEN 0 ELSE r.ProviderData

\* C7, as stated: SetRecords issues, for an input record that carries a
\* non-zero provider identifier, an update request to that identifier and no
\* create request, and for a record without identifier a create request.
C7_SetByIdentifier ==
    last.op = "SetRecords" =>
        \A n \in 1..Len(last.reqs) :
            last.reqs[n].method = "POST" =>
                LET id == ProviderID(last.input[last.reqs[n].k])
                IN IF id # 0
                   THEN last.reqs[n].endpoint = "dns/id" /\ last.reqs[n].id = id
                   ELSE last.reqs[n].endpoint = "dns"

\* Input record k of the returned call exists in the remote zone under its
\* name and type with other data.
ExistsChanged(k) ==
    LET dsrr == libdnsRecordTodsDNSRecord(last.input[k])
        records == last.before.remote
    IN \E i \in 1..Len(records) :
          /\ records[i].Host = normalizeRecordName(dsrr.Host, last.zone)
          /\ records[i].Type = dsrr.Type
          /\ records[i].Data # dsrr.Data

\* C8, as stated: a successful SetRecords returns |R| records in input order,
\* and the result for an input record that exists remotely with its data
\* changed carries the new data.
C8_SetResult ==
    last.op = "SetRecords" /\ ~last.err =>
        /\ Len(last.result) = Len(last.input)
        /\ \A k \in 1..Len(last.input) :
              ExistsChanged(k) => RR(last.result[k]).Data = RR(last.input[k]).Data

\* The returned call is a batch operation that failed at input record failK.
BatchFailed ==
    /\ last.op \in {"AppendRecords", "DeleteRecords", "SetRecords"}
    /\ last.err

\* The remote effects of the requests that were answered are in place: what
\* was created is there, what was deleted is not.
EffectsRemain ==
    \A n \in 1..Len(last.reqs) :
        ~last.reqs[n].err =>
            /\ last.reqs[n].method = "POST" => HasID(remote, last.reqs[n].rid)
            /\ last.reqs[n].method = "DELETE" => ~HasID(remote, last.reqs[n].id)

\* A request that failed is the last one issued: none is retried, none follows.
FailedRequestIsLast ==
    \A n \in 1..Len(last.reqs) : last.reqs[n].err => n = Len(last.reqs)

\* C10, as stated: when the processing of input record k of a batch operation
\* fails, the operation returns an error and a nil result, has issued no
\* request after the failure and none for a record after k, and the effects
\* applied before remain.
C10_FailFast ==
    BatchFailed =>
        /\ last.failK # 0
        /\ last.result = <<>>
        /\ FailedRequestIsLast
        /\ \A n \in 1..Len(last.reqs) : last.reqs[n].k <= last.failK
        /\ EffectsRemain

\* C10, amended: as stated when a transport call for record k fails, in all
\* three operations, and when the reverse mapping of record k's result fails in
\* AppendRecords; SetRecords maps its results back only after it has issued the
\* requests of every input record, so a reverse mapping that fails there finds
\* the requests of the records after k issued and answered.
C10_FailFastByPhase ==
    BatchFailed =>
        /\ last.failK # 0
        /\ last.result = <<>>
        /\ FailedRequestIsLast
        /\ EffectsRemain
        /\ IF last.op = "SetRecords" /\ TransportOK
           THEN \A k \in 1..Len(last.input) :
                   \E n \in 1..Len(last.reqs) : last.reqs[n].k = k
           ELSE \A n \in 1..Len(last.reqs) : last.reqs[n].k <= last.failK

\* C10 witness: an AppendRecords whose second create request failed, with the
\* first record created and left in the remote zone.
C10_Witness ==
    /\ BatchFailed
    /\ last.op = "AppendRecords"
    /\ last.failK = 2
    /\ ~TransportOK
    /\ Len(remote) = Len(last.before.remote) + 1

\* A well-formed name relative to zone z: labels that are not empty, and not
\* itself a spelling of the zone or of a name under it.
Relative(n, z) ==
    /\ n # <<>>
    /\ n[1] # "." /\ n[Len(n)] # "."
    /\ \A i \in 1..(Len(n) - 1) : ~(n[i] = "." /\ n[i + 1] = ".")
    /\ n # z
    /\ ~HasSuffix(n, <<".">> \o z)

\* C4, as stated: for a relative name n and a zone z, normalizeRecordName
\* yields n for n, n.z and n.z. alike, against z and against z. alike; the zone
\* itself, with or without trailing dot, yields "@"; no result ends in a dot.
C4_NormalizeForms ==
    norm.done /\ Relative(norm.name, norm.zone) =>
        /\ \A i \in 1..3, j \in 1..2 : norm.out.names[i][j] = norm.name
        /\ \A i \in 1..2, j \in 1..2 : norm.out.apex[i][j] = <<"@">>
        /\ \A i \in 1..3, j \in 1..2 : ~HasSuffix(norm.out.names[i][j], <<".">>)

\* C9, as stated: the record the update path returns for a record with
\* non-zero identifier i, the update request answered, has identifier i and the
\* field values the remote holds for i after the update, whatever the zone's
\* record cache held.
C9_UpdateReturnsRemote ==
    /\ last.op = "createOrUpdateDNSRecord"
    /\ last.input[1].ID # 0
    /\ ~last.err
    =>
    /\ last.ds[1].ID = last.input[1].ID
    /\ \E j \in 1..Len(remote) : remote[j] = last.ds[1]

\* The dot-separated labels of a name.
RECURSIVE Labels(_)
Labels(s) ==
    Bind(SplitN2(s), LAMBDA parts :
    IF Len(parts) = 1 THEN parts ELSE <<parts[1]>> \o Labels(parts[2]))

\* The provider record is a service record whose priority, weight and port
\* are numbers of 16 bits and whose host has two labels or more.
ServiceRecord(r) ==
    /\ r.Type = "SRV"
    /\ ~ParseUint(r.Priority).err /\ ~ParseUint(r.Weight).err
    /\ ~ParseUint(r.Port).err
    /\ Len(Labels(r.Host)) >= 2

\* C12, as stated: the reverse mapping of a service record yields the first
\* two labels of the host, their leading underscore stripped, as Service and
\* Transport, and the numbers of its priority, weight and port.
C12_ReverseSRV ==
    codec.done /\ codec.side = "provider" /\ ServiceRecord(codec.rec) =>
        /\ ~codec.out.err
        /\ codec.out.rec.kind = "SRV"
        /\ codec.out.rec.Service = TrimPrefix(Labels(codec.rec.Host)[1], <<"_">>)
        /\ codec.out.rec.Transport = TrimPrefix(Labels(codec.rec.Host)[2], <<"_">>)
        /\ codec.out.rec.Priority = ParseUint(codec.rec.Priority).val
        /\ codec.out.rec.Weight = ParseUint(codec.rec.Weight).val
        /\ codec.out.rec.Port = ParseUint(codec.rec.Port).val

\* Generic records r and q agree in name, TTL, type and data and in the
\* fields of their kind.
SameFields(r, q) ==
    /\ RR(r) = RR(q)
    /\ r.kind = "MX" =>
          q.kind = "MX" /\ q.Preference = r.Preference /\ q.Target = r.Target
    /\ r.kind = "SRV" =>
          /\ q.kind = "SRV" /\ q.Name = r.Name
          /\ q.Service = r.Service /\ q.Transport = r.Transport
          /\ q.Priority = r.Priority /\ q.Weight = r.Weight /\ q.Port = r.Port
          /\ q.Target = r.Target

\* C13, as stated: for every well-formed generic record r, the reverse
\* mapping of the forward mapping of r succeeds and equals r in every field.
C13_RoundTrip ==
    codec.done /\ codec.side = "generic" =>
        ~codec.out.err /\ SameFields(codec.rec, codec.out.rec)

\* C14: a GetRecords that succeeds returns the reverse mapping of every
\* record of the remote zone, in the order fetched, and leaves exactly the
\* fetched records as the zone's snapshot; when the zone was fetched and one
\* of its records does not reverse-map, it returns an error and no records.
C14_ListSnapshot ==
    last.op = "GetRecords" =>
        /\ ~last.err =>
              /\ last.ds = last.before.remote
              /\ Len(last.result) = Len(last.ds)
              /\ \A k \in 1..Len(last.ds) :
                    /\ ~libdnsRecord(last.ds[k]).err
                    /\ last.result[k] = libdnsRecord(last.ds[k]).rec
              /\ last.zone \in DOMAIN knownRecords
              /\ knownRecords[last.zone] = last.ds
        /\ TransportOK
           /\ (\E i \in 1..Len(last.before.remote) :
                  libdnsRecord(last.before.remote[i]).err)
           => last.err /\ last.result = <<>>

\* C14 witness: a listing that succeeds, returns a record and replaces a
\* snapshot of the zone that held a tombstoned entry.
C14_Witness ==
    /\ last.op = "GetRecords"
    /\ ~last.err
    /\ Len(last.result) >= 1
    /\ last.zone \in DOMAIN last.before.knownRecords
    /\ \E i \in 1..Len(last.before.knownRecords[last.zone]) :
          last.before.knownRecords[last.zone][i].ID = 0

\* The slice the cache holds for the zone looked up (none: empty).
LookedUp == IF look.zone \in DOMAIN look.known THEN look.known[look.zone] ELSE <<>>

\* Entry e has a non-zero identifier and either the candidate's non-zero
\* identifier or the candidate's host and data.
Satisfies(e) ==
    /\ e.ID # 0
    /\ \/ look.record.ID # 0 /\ look.record.ID = e.ID
       \/ e.Host = look.record.Host /\ e.Data = look.record.Data

\* C15: getRecordFromKnownRecords returns an entry of the zone's slice only
\* if the entry has a non-zero identifier and the candidate's non-zero
\* identifier or the candidate's host and data, and returns the empty record
\* exactly when no entry is such.
C15_LookupMatch ==
    look.done /\ look.out.op = "lookup" =>
        /\ look.out.rec # EmptyRecord =>
              /\ \E i \in 1..Len(LookedUp) : LookedUp[i] = look.out.rec
              /\ Satisfies(look.out.rec)
        /\ look.out.rec = EmptyRecord <=>
              ~\E i \in 1..Len(LookedUp) : Satisfies(LookedUp[i])

\* C15 witness: a candidate without identifier found by host and data behind
\* a tombstoned entry of the same host and data.
C15_Witness ==
    /\ look.done /\ look.out.op = "lookup"
    /\ look.record.ID = 0
    /\ Len(LookedUp) = 2
    /\ LookedUp[1].ID = 0
    /\ LookedUp[1].Host = look.record.Host /\ LookedUp[1].Data = look.record.Data
    /\ look.out.rec = LookedUp[2]

\* C16, as stated: for a candidate with non-zero identifier, when the slice
\* holds an entry with that identifier and another entry that shares only host
\* and data with the candidate, the lookup returns the entry with the
\* identifier, whatever the order of the two.
C16_IdentifierFirst ==
    /\ look.done /\ look.out.op = "lookup"
    /\ look.record.ID # 0
    /\ \E i, j \in 1..Len(LookedUp) :
          /\ LookedUp[i].ID = look.record.ID
          /\ LookedUp[j].ID \notin {0, look.record.ID}
          /\ LookedUp[j].Host = look.record.Host
          /\ LookedUp[j].Data = look.record.Data
    => look.out.rec.ID = look.record.ID

\* The positions of the slice that hold the candidate's non-zero identifier.
Holding == {i \in 1..Len(LookedUp) :
               look.record.ID # 0 /\ LookedUp[i].ID = look.record.ID}

\* C17: removeRecordFromKnownRecords sets to 0 the identifier of the first
\* entry of the zone's slice with the candidate's non-zero identifier and
\* returns true, leaving the length of the slice, every other field and entry
\* and every other zone's slice as they were; when no entry has it, or the
\* candidate's identifier is 0, it returns false and changes nothing.
C17_SoftDelete ==
    look.done /\ look.out.op = "remove" =>
        IF Holding = {}
        THEN ~look.out.found /\ look.out.known = look.known
        ELSE /\ look.out.found
             /\ DOMAIN look.out.known = DOMAIN look.known
             /\ \A z \in DOMAIN look.known \ {look.zone} :
                   look.out.known[z] = look.known[z]
             /\ Len(look.out.known[look.zone]) = Len(LookedUp)
             /\ \A i \in 1..Len(LookedUp) :
                   look.out.known[look.zone][i] =
                      IF i \in Holding /\ \A j \in Holding : i <= j
                      THEN [LookedUp[i] EXCEPT !.ID = 0]
                      ELSE LookedUp[i]

\* C17 witness: a removal from a slice of two entries with the candidate's
\* identifier, in a cache that holds another zone's slice.
C17_Witness ==
    /\ look.done /\ look.out.op = "remove"
    /\ Holding = {1, 2}
    /\ ZoneDot \in DOMAIN look.known
    /\ look.out.found


\* The places where a caller has a request in flight.
InFlight == {"zones response", "records response", "create response",
             "delete response"}

\* The places of an operation that come after its first zone resolution.
Resolved == {"getAllDomainRecords", "records response", "save records",
             "GetRecords", "createDNSRecord", "create response", "getDNSRecord",
             "deleteDNSRecord", "delete response", "removeRecordFromKnownRecords"}

\* The zone queries among the requests of a caller's operation.
ZoneQueries(p) == SelectSeq(procs[p].reqs, LAMBDA q : q.endpoint = "domains")

\* C18: zone resolution is memoized per exact zone string.  In every
\* interleaving of concurrent operations, a zone query is never sent for a
\* string whose zone is already stored; the zone stored for a string is the
\* one zone the remote holds under that name, so nothing is stored for a name
\* the remote holds twice or not at all and every operation on it fails; and an operation
\* past its resolution holds the stored zone of its string.
C18_ZoneMemoized ==
    /\ hist.requeried = {}
    /\ \A z \in DOMAIN zones :
          /\ z \notin {ZoneTwice, ZoneAbsent}
          /\ zones[z] = RemoteZone
          /\ removeFQDNTrailingDot(z) = RemoteZone.Name
    /\ \A p \in Procs :
          /\ procs[p].pc \in Resolved =>
                /\ procs[p].zone \in DOMAIN zones
                /\ procs[p].domain = zones[procs[p].zone]
          /\ procs[p].pc = "ret" /\ procs[p].zone \in {ZoneTwice, ZoneAbsent} =>
                /\ procs[p].err
                /\ Len(procs[p].reqs) = 1
          /\ Len(ZoneQueries(p)) <= 1

\* C18 witness: a caller in its second operation is past the resolution of a
\* zone string without having sent a zone query, while the other caller has
\* failed on the name the remote holds twice.
C18_Witness ==
    \E p, q \in Procs :
        /\ procs[p].calls = 1
        /\ procs[p].pc \in Resolved
        /\ procs[p].domain = RemoteZone
        /\ ZoneQueries(p) = <<>>
        /\ procs[q].pc = "ret"
        /\ procs[q].zone = ZoneTwice
        /\ procs[q].err
        /\ procs[q].resp.zones = <<RemoteZones[2], RemoteZones[3]>>

\* C19: neither cache lock is held while a request is in flight.  No caller
\* with a request in flight holds zonesMu or knownRecordsMu, and a caller
\* about to resolve a zone finds zonesMu free whenever another caller has a
\* request in flight.
C19_NoLockAcrossRequest ==
    \A p \in Procs :
        procs[p].pc \in InFlight =>
            /\ mu.zones # p
            /\ mu.known # p
            /\ \A q \in Procs \ {p} :
                  procs[q].pc = "getDomainInfo" => mu.zones = 0


\* Caller p is about to read element k of the slice it got from the refresh.
Reading(p) ==
    /\ procs[p].pc = "GetRecords"
    /\ procs[p].k <= Len(heap[procs[p].slice])

\* Caller q is about to reset the identifier of element i of slice a.
Writing(q, a, i) ==
    /\ procs[q].pc = "removeRecordFromKnownRecords"
    /\ procs[q].zone \in DOMAIN slices
    /\ slices[procs[q].zone] = a
    /\ i \in 1..Len(heap[a])
    /\ heap[a][i].ID = procs[q].found.ID
    /\ \A j \in 1..(i - 1) : heap[a][j].ID # procs[q].found.ID

\* C20: the cached record entries are lock-protected against races.  In
\* every interleaving, a caller that reads an element of a slice stored in
\* the record cache holds knownRecordsMu, so no caller is about to read an
\* element while another caller is about to reset its identifier.
C20_NoRacingAccess ==
    \A p \in Procs :
        Reading(p) =>
            \/ mu.known = p
            \/ \A q \in Procs \ {p} : ~Writing(q, procs[p].slice, procs[p].k)


\* The remote holds a record with the identifier, host, type and data of r.
RemoteHas(r) ==
    \E i \in 1..Len(remote) :
        /\ remote[i].ID = r.ID
        /\ remote[i].Host = r.Host
        /\ remote[i].Type = r.Type
        /\ remote[i].Data = r.Data

\* The requests of caller p's operation other than zone queries.
RecordRequests(p) == SelectSeq(procs[p].reqs, LAMBDA q : q.endpoint # "domains")

\* C11: AppendRecords is not idempotent.  An append never looks into the
\* record cache and sends no request but the zone query and one create; each
\* successful append returns the record with an identifier of its own, and
\* the remote holds a record with that identifier and the same host, type
\* and data, until it is deleted: two appends of one record, by one caller
\* or by two at once, leave two such records.
C11_AppendNotIdempotent ==
    /\ \A p \in Procs :
          procs[p].op = "AppendRecords" =>
              /\ procs[p].slice = 0
              /\ procs[p].found = EmptyRecord
              /\ ~procs[p].refreshed
              /\ Len(RecordRequests(p)) <= 1
              /\ \A i \in 1..Len(RecordRequests(p)) :
                    /\ RecordRequests(p)[i].method = "POST"
                    /\ RecordRequests(p)[i].endpoint = "dns"
              /\ procs[p].pc = "ret" /\ ~procs[p].err =>
                    /\ Len(RecordRequests(p)) = 1
                    /\ Len(procs[p].ds) = 1
                    /\ [proc |-> p, call |-> procs[p].calls, rec |-> procs[p].ds[1]]
                          \in hist.created
    /\ \A e \in hist.created :
          /\ e.rec.ID # 0
          /\ e.rec.ID \notin hist.deleted => RemoteHas(e.rec)
          /\ \A f \in hist.created \ {e} :
                /\ f.rec.ID # e.rec.ID
                /\ f.rec.Host = e.rec.Host
                /\ f.rec.Type = e.rec.Type
                /\ f.rec.Data = e.rec.Data

\* C11 witness: both callers, each in its first operation, have appended
\* the same record with success, and the remote holds both records.
C11_Witness ==
    \E e, f \in hist.created :
        /\ e.proc # f.proc
        /\ e.call = 0 /\ f.call = 0
        /\ procs[e.proc].pc = "ret" /\ procs[f.proc].pc = "ret"
        /\ procs[e.proc].ds = <<e.rec>> /\ procs[f.proc].ds = <<f.rec>>
        /\ RemoteHas(e.rec) /\ RemoteHas(f.rec)
        /\ e.rec.ID # f.rec.ID


\* The provider record of input record k of the last call.
InputRecord(k) ==
    IF "kind" \in DOMAIN last.input[k]
    THEN libdnsRecordTodsDNSRecord(last.input[k])
    ELSE last.input[k]

\* The create and update requests of the last call.
Writes == SelectSeq(last.reqs, LAMBDA q : q.method = "POST")

\* C21: the body of every create and update request carries 120 seconds
\* when the TTL of the provider record is 0, and the TTL of the provider
\* record otherwise, which is the TTL of the input in whole seconds; no
\* request carries TTL 0.
C21_TtlDefault ==
    \A i \in 1..Len(Writes) :
        /\ Writes[i].body.TTL # 0
        /\ Writes[i].body.TTL =
              IF InputRecord(Writes[i].k).TTL = 0
              THEN 120
              ELSE InputRecord(Writes[i].k).TTL

\* C21 witness: a create request for a record of half a second has gone out
\* with 120 seconds and was answered.
C21_Witness ==
    /\ last.op = "AppendRecords"
    /\ ~last.err
    /\ Len(last.input) = 1
    /\ last.input[1].TTL = 1
    /\ Len(Writes) = 1
    /\ Writes[1].endpoint = "dns"
    /\ Writes[1].body.TTL = 120


\* Every cached entry with an identifier refers to a record the remote holds.
CacheValid ==
    \A z \in DOMAIN knownRecords :
        \A i \in 1..Len(knownRecords[z]) :
            knownRecords[z][i].ID # 0 => HasID(remote, knownRecords[z][i].ID)

\* Every DELETE of the last call is for a record the remote held before the
\* call and which no earlier DELETE of the call has removed.
DeletesOnce ==
    \A n \in 1..Len(last.reqs) :
        last.reqs[n].method = "DELETE" =>
            /\ HasID(last.before.remote, last.reqs[n].id)
            /\ \A m \in 1..(n - 1) :
                  ~(/\ last.reqs[m].method = "DELETE"
                    /\ last.reqs[m].id = last.reqs[n].id
                    /\ ~last.reqs[m].err)

\* C22, as stated: after any sequence of calls on one instance, with any
\* spelling of the zone name, successful or failed, every entry with a
\* non-zero identifier in a cached snapshot refers to a record that exists
\* remotely, and no DELETE is sent for an identifier the instance has
\* already deleted.
C22_CacheValid == CacheValid /\ DeletesOnce

====
